---- MODULE Spec2Model ----
(***************************************************************************)
(* Malaysia EV Charging Tracker (app.py): the charging log file, the       *)
(* normalising load, the month filter, the aggregate views, the entry      *)
(* form and the bulk editor's "Save Changes to CSV".                       *)
(*                                                                         *)
(* Representation.                                                         *)
(*   - A CSV cell and a pandas value are both an optional: <<>> is the     *)
(*     empty cell / NaN / NaT / None / pd.NA, <<v>> is the value v.        *)
(*   - A text is a sequence of one-character strings, so that str.strip()  *)
(*     is computed and not assumed.                                        *)
(*   - A date is <<year, month, day>>.                                     *)
(*   - kWh is counted in tenths of a kWh, Total Cost in cents, and         *)
(*     Cost_per_kWh in thousandths of a currency unit per kWh, so that     *)
(*     round(total_cost / kwh, 3) is an integer rounding of               *)
(*     100 * cents / tenths.  Coordinates are in thousandths of a degree.  *)
(*   - The Day column of load_data feeds only the heat map and is not      *)
(*     carried.                                                            *)
(* Every action is one run of the Streamlit script: the "ensure CSV        *)
(* exists" block, load_data, the sidebar filter and then the handler of    *)
(* the widget that triggered the run.                                      *)
(***************************************************************************)
EXTENDS Integers, Sequences, FiniteSets, TLC

VARIABLES file, selected_month, msgs, last, saves

vars == <<file, selected_month, msgs, last, saves>>

(* ------------------------------ bounds --------------------------------- *)
MaxRows == 2
MaxSaves == 1
MaxEntries == 2

(* ------------------------------ values --------------------------------- *)
NA == <<>>

Some(v) == <<v>>

IsNA(c) == c = <<>>

Val(c) == c[1]

EXPECTED_COLUMNS ==
  <<"Date", "Provider", "Location", "Latitude", "Longitude", "Type", "kWh",
    "Total Cost", "Cost_per_kWh", "Month">>

display_cols ==
  <<"Date", "Provider", "Location", "Latitude", "Longitude", "Type", "kWh",
    "Total Cost", "Month">>

Home == <<"H", "o", "m", "e">>

Other == <<"O", "t", "h", "e", "r">>

(* ------------------------------ helpers -------------------------------- *)
RECURSIVE LStrip(_)
LStrip(s) == IF s # <<>> /\ Head(s) = " " THEN LStrip(Tail(s)) ELSE s

RECURSIVE RStrip(_)
RStrip(s) ==
  IF s # <<>> /\ s[Len(s)] = " " THEN RStrip(SubSeq(s, 1, Len(s) - 1)) ELSE s

\* str.strip()
Strip(s) == RStrip(LStrip(s))

Pad2(n) == IF n < 10 THEN "0" \o ToString(n) ELSE ToString(n)

\* str(pd.to_datetime(d).to_period("M")); a missing period prints as "NaT".
MonthStr(d) ==
  IF IsNA(d) THEN "NaT" ELSE ToString(Val(d)[1]) \o "-" \o Pad2(Val(d)[2])

\* round(n / d, 3) on the scaled integers, d > 0: nearest, ties to even.
RoundDiv(n, d) ==
  LET q == n \div d
      r == n % d
  IN  IF 2 * r < d THEN q
      ELSE IF 2 * r > d THEN q + 1
      ELSE IF q % 2 = 0 THEN q ELSE q + 1

\* round(total_cost / kwh_val, 3) if kwh_val > 0 else 0      (entry form)
cost_per_kwh(total_cost, kwh_val) ==
  IF kwh_val > 0 THEN RoundDiv(100 * total_cost, kwh_val) ELSE 0

RECURSIVE SelectRows(_, _)
SelectRows(s, keep) ==
  IF s = <<>> THEN <<>>
  ELSE IF Head(s) \in keep THEN <<Head(s)>> \o SelectRows(Tail(s), keep)
  ELSE SelectRows(Tail(s), keep)

Range(s) == {s[i] : i \in DOMAIN s}

(* ------------------------------ the file ------------------------------- *)
\* The file after pd.DataFrame(columns=EXPECTED_COLUMNS).to_csv(RAWDATA).
HeaderOnly == [header |-> EXPECTED_COLUMNS, rows |-> <<>>]

\* "ENSURE CSV EXISTS": a missing or zero-byte file is recreated.
EnsureCsv(f) == IF f.header = <<>> /\ f.rows = <<>> THEN HeaderOnly ELSE f

(* ------------------------------ load_data ------------------------------ *)
IsDate(v) == Len(v) = 3 /\ v[2] \in 1..12 /\ v[3] \in 1..31

\* pd.to_datetime(..., errors="coerce"): what is not a date becomes NaT.
to_datetime(c) == IF ~IsNA(c) /\ IsDate(Val(c)) THEN c ELSE NA

\* pd.to_numeric(..., errors="coerce"): what is not a number becomes NaN.
to_numeric(c) == IF ~IsNA(c) /\ Val(c) \in Int THEN c ELSE NA

\* df["Date"].dt.to_period("M").astype(str)
MonthOf(date) == Some(MonthStr(date))

NormalizeRow(r) ==
  LET date == to_datetime(r["Date"])
  IN  [c \in Range(EXPECTED_COLUMNS) |->
         CASE c = "Date" -> date
           [] c = "Month" -> MonthOf(date)
           [] c = "Latitude" -> to_numeric(r["Latitude"])
           [] c = "Longitude" -> to_numeric(r["Longitude"])
           [] OTHER -> r[c]]

\* The frame returned by load_data for the file f (an empty frame is <<>>).
load_data(f) == [i \in DOMAIN f.rows |-> NormalizeRow(f.rows[i])]

(* ------------------------------ sidebar filter ------------------------- *)
\* df["Month"].dropna().unique()
unique_months(df) == {Val(df[i]["Month"]) : i \in {j \in DOMAIN df : ~IsNA(df[j]["Month"])}}

\* The options of the Month selectbox; without data there is no selectbox.
MonthOptions(df) == IF df # <<>> THEN {"All"} \cup unique_months(df) ELSE {"All"}

\* Variant of filtered_df that matches on the year prefix of the month key:
\* it keeps the rows of the year of the rows of the selected month.
filtered_df_SameYear(df, sel) ==
  IF df # <<>> /\ sel # "All"
  THEN SelectRows(df, {r \in Range(df) :
         \E q \in Range(df) :
           /\ q["Month"] = Some(sel)
           /\ IsNA(q["Date"]) = IsNA(r["Date"])
           /\ ~IsNA(q["Date"]) => Val(q["Date"])[1] = Val(r["Date"])[1]})
  ELSE df

\* filtered_df = df[df["Month"] == selected_month]
filtered_df(df, sel) ==
  IF df # <<>> /\ sel # "All"
  THEN SelectRows(df, {r \in Range(df) : r["Month"] = Some(sel)})
  ELSE df

\* A selectbox whose value is no longer among its options falls back to the
\* first option.
KeepSelection(sel, df) == IF sel \in MonthOptions(df) THEN sel ELSE "All"

(* ------------------------------ aggregate views ------------------------ *)
\* Series.sum() skips NaN.
CostOf(r) == IF IsNA(r["Total Cost"]) THEN 0 ELSE Val(r["Total Cost"])

RECURSIVE SumCost(_)
SumCost(rows) == IF rows = <<>> THEN 0 ELSE CostOf(Head(rows)) + SumCost(Tail(rows))

RECURSIVE CountDates(_)
CountDates(rows) ==
  IF rows = <<>> THEN 0
  ELSE (IF IsNA(Head(rows)["Date"]) THEN 0 ELSE 1) + CountDates(Tail(rows))

\* filtered_df.groupby(filtered_df["Date"].dt.date)["Total Cost"].sum():
\* groupby drops the rows whose key is missing.
daily_df(fdf) ==
  {[Date |-> d,
    TotalCost |-> SumCost(SelectRows(fdf, {r \in Range(fdf) : r["Date"] = d}))] :
     d \in {fdf[i]["Date"] : i \in DOMAIN fdf} \ {NA}}

\* filtered_df.dropna(subset=["Latitude", "Longitude"])
map_df(fdf) ==
  SelectRows(fdf, {r \in Range(fdf) : ~IsNA(r["Latitude"]) /\ ~IsNA(r["Longitude"])})

LocKey(r) == <<r["Location"], r["Latitude"], r["Longitude"]>>

\* map_df.groupby(["Location","Latitude","Longitude"]).agg(
\*   Total_Sessions=("Date","count"), Total_Spent=("Total Cost","sum")):
\* groupby drops the rows with a missing key part, "count" counts the
\* non-missing Date values of the group.
location_agg(fdf) ==
  LET m == map_df(fdf)
      keys == {LocKey(m[i]) : i \in DOMAIN m}
      groups == {k \in keys : \A j \in 1..3 : ~IsNA(k[j])}
      members(k) == SelectRows(m, {r \in Range(m) : LocKey(r) = k})
  IN  {[Location |-> k[1], Latitude |-> k[2], Longitude |-> k[3],
        Total_Sessions |-> CountDates(members(k)),
        Total_Spent |-> SumCost(members(k))] : k \in groups}

(* ------------------------------ geocoding ------------------------------ *)
\* What geolocator.geocode() does: it returns a location, returns None or
\* raises.
GeoFound(lat, lon) == [kind |-> "found", lat |-> lat, lon |-> lon]

GeoNone == [kind |-> "none", lat |-> 0, lon |-> 0]

GeoRaise == [kind |-> "raise", lat |-> 0, lon |-> 0]

\* get_coordinates: the pair (lat, lon), or (None, None) when nothing is
\* found or the lookup raises.
get_coordinates(location_name, geo) ==
  IF geo.kind = "found" THEN <<Some(geo.lat), Some(geo.lon)>> ELSE <<NA, NA>>

\* Python truth value of a float-or-None: None and 0.0 are false.
Truthy(c) == ~IsNA(c) /\ Val(c) # 0

(* ------------------------------ entry form ----------------------------- *)
\* Variant of ProviderOf that forgets the strip().
ProviderOf_NoStrip(inp) ==
  IF inp.selected_provider = Other THEN inp.other_provider
  ELSE inp.selected_provider

\* provider = other_provider.strip() if selected_provider == "Other"
\*            else selected_provider
ProviderOf(inp) ==
  IF inp.selected_provider = Other THEN Strip(inp.other_provider)
  ELSE inp.selected_provider

\* The geocoder is asked when a coordinate is at the 0.0 sentinel and the
\* location name is not blank.
NeedsGeocoding(inp) ==
  (inp.lat_val = 0 \/ inp.lon_val = 0) /\ Strip(inp.location_name) # <<>>

\* "AUTO GEOCODING LOGIC": <<final_lat, final_lon>>
FinalCoords(inp, geo) ==
  IF NeedsGeocoding(inp)
  THEN LET found == get_coordinates(inp.location_name, geo)
       IN  IF Truthy(found[1]) THEN found ELSE <<NA, NA>>
  ELSE IF inp.lat_val = 0 /\ inp.lon_val = 0 THEN <<NA, NA>>
  ELSE <<Some(inp.lat_val), Some(inp.lon_val)>>

GeocodeWarning(inp, geo) ==
  NeedsGeocoding(inp) /\ ~Truthy(get_coordinates(inp.location_name, geo)[1])

\* new_data, in the columns of EXPECTED_COLUMNS
new_data(inp, geo) ==
  LET final == FinalCoords(inp, geo)
  IN  [c \in Range(EXPECTED_COLUMNS) |->
         CASE c = "Date" -> Some(inp.date_val)
           [] c = "Provider" -> Some(ProviderOf(inp))
           [] c = "Location" -> Some(Strip(inp.location_name))
           [] c = "Latitude" -> final[1]
           [] c = "Longitude" -> final[2]
           [] c = "Type" -> Some(inp.output_type)
           [] c = "kWh" -> Some(inp.kwh_val)
           [] c = "Total Cost" -> Some(inp.total_cost)
           [] c = "Cost_per_kWh" -> Some(cost_per_kwh(inp.total_cost, inp.kwh_val))
           [] c = "Month" -> Some(MonthStr(Some(inp.date_val)))]

\* DataFrame.to_csv writes a missing value and an empty string alike as an
\* empty cell.
to_csv_row(r) ==
  [c \in DOMAIN r |->
     IF c \in {"Provider", "Location"} /\ r[c] = Some(<<>>) THEN NA ELSE r[c]]

\* new_row_to_save.to_csv(RAWDATA, mode="a", header=False, index=False)
AppendCsv(f, r) == [f EXCEPT !.rows = Append(@, to_csv_row(r))]

(* ------------------------------ bulk editor ---------------------------- *)
\* Order of sort_values("Date", ascending=False): a before b is wrong when a
\* is earlier than b; NaT sorts last.
DateLess(a, b) ==
  LET x == Val(a)
      y == Val(b)
  IN  x[1] < y[1] \/ (x[1] = y[1] /\ (x[2] < y[2] \/ (x[2] = y[2] /\ x[3] < y[3])))

Misplaced(a, b) == IF IsNA(a) THEN ~IsNA(b) ELSE ~IsNA(b) /\ DateLess(a, b)

DisplayRow(r) == [c \in Range(display_cols) |-> r[c]]

\* The frames sort_values("Date", ascending=False) can return for df: the
\* sort is not stable, so rows with equal dates may come in any order.
SortedFrames(df) ==
  LET n == Len(df)
      perms == {p \in [1..n -> 1..n] : \A i, j \in 1..n : i # j => p[i] # p[j]}
      sorted == {p \in perms :
                   \A i \in 1..n : \A j \in 1..n :
                     i < j => ~Misplaced(df[p[i]]["Date"], df[p[j]]["Date"])}
  IN  {[i \in 1..n |-> DisplayRow(df[p[i]])] : p \in sorted}

\* Variant of SortedViews that shows the editor the month-filtered frame.
SortedViews_Filtered(df) == SortedFrames(filtered_df(df, selected_month))

\* The frame shown by st.data_editor:
\* df.sort_values("Date", ascending=False)[existing_cols], the whole log
\* whatever the month filter.
SortedViews(df) == SortedFrames(df)

\* lambda x: round(x["Total Cost"] / x["kWh"], 3)
\*           if pd.notnull(x["kWh"]) and x["kWh"] > 0 else 0
\* With kWh > 0 and a missing Total Cost the quotient is NaN and so is its
\* rounding.
RowCost(x) ==
  IF ~IsNA(x["kWh"]) /\ Val(x["kWh"]) > 0
  THEN IF IsNA(x["Total Cost"]) THEN NA
       ELSE Some(RoundDiv(100 * Val(x["Total Cost"]), Val(x["kWh"])))
  ELSE Some(0)

\* Variant of SaveRow that keeps the Month column of the editor.
SaveRow_KeepMonth(x) ==
  [c \in Range(EXPECTED_COLUMNS) |->
     IF c = "Cost_per_kWh" THEN RowCost(x) ELSE x[c]]

\* One row of final_save_df: Cost_per_kWh and Month are recomputed, the
\* other columns are the editor's.
SaveRow(x) ==
  [c \in Range(EXPECTED_COLUMNS) |->
     CASE c = "Cost_per_kWh" -> RowCost(x)
       [] c = "Month" -> MonthOf(x["Date"])
       [] OTHER -> x[c]]

final_save_df(edited) == [i \in DOMAIN edited |-> to_csv_row(SaveRow(edited[i]))]

\* final_save_df.to_csv(RAWDATA, index=False) opens RAWDATA for writing,
\* which truncates it, and writes the header and the rows in place.
\*   ok    : everything is written;
\*   open  : the file cannot be opened, nothing is touched;
\*   write : the write fails after k rows reached the disk (k = -1: not even
\*           the header did, the file is left with zero bytes).
WriteCsv(f, rows, fault) ==
  CASE fault.kind = "ok" -> [header |-> EXPECTED_COLUMNS, rows |-> rows]
    [] fault.kind = "open" -> f
    [] fault.kind = "write" ->
         IF fault.k < 0 THEN [header |-> <<>>, rows |-> <<>>]
         ELSE [header |-> EXPECTED_COLUMNS, rows |-> SubSeq(rows, 1, fault.k)]

Faults(n) ==
  {[kind |-> "ok", k |-> 0], [kind |-> "open", k |-> 0]}
    \cup {[kind |-> "write", k |-> k] : k \in (-1)..(n - 1)}

\* The disk works.
NoFaults == {"ok"}

\* The disk can fail.
AnyFault == {"ok", "open", "write"}

(* ------------------------------ inputs --------------------------------- *)
D1 == <<2024, 3, 1>>

D2 == <<2024, 4, 2>>

KL == <<"K", "L">>

FormInput(sp, op, d, loc, lat, lon) ==
  [selected_provider |-> sp, other_provider |-> op, date_val |-> d,
   location_name |-> loc, output_type |-> "DC", kwh_val |-> 30,
   total_cost |-> 2000, lat_val |-> lat, lon_val |-> lon]

\* Submissions of the editing scenarios: a named place in March left to
\* the geocoder, and an unnamed place in April with coordinates typed in.
FormInputs ==
  {FormInput(Home, <<>>, D1, KL, 0, 0), FormInput(Home, <<>>, D2, <<>>, 3158, 101712)}

GeoOutcomes == {GeoFound(3158, 101712), GeoNone}

\* Submissions of the entry scenarios: every provider, blank and padded
\* texts, one-sided coordinates and every behaviour of the geocoder.
EntryInputs ==
  {FormInput(pp[1], pp[2], d, loc, lat, lon) :
     pp \in {<<Home, <<>>>>, <<Other, <<>>>>, <<Other, <<" ">>>>,
             <<Other, <<" ", "Z", " ">>>>},
     d \in {D1}, loc \in {<<>>, <<" ">>, <<"K", "L", " ">>},
     lat \in {0, 3158}, lon \in {0, 101712}}

EntryGeoOutcomes ==
  {GeoFound(3158, 101712), GeoFound(0, 101712), GeoNone, GeoRaise}

\* Rows a user adds in the editor: one left blank, one filled in.
BlankRow == [c \in Range(display_cols) |-> NA]

FilledRow ==
  [c \in Range(display_cols) |->
     CASE c = "Date" -> Some(D2)
       [] c = "Provider" -> Some(Home)
       [] c = "Location" -> Some(KL)
       [] c = "Type" -> Some("AC")
       [] c = "kWh" -> Some(30)
       [] c = "Total Cost" -> Some(2000)
       [] OTHER -> NA]

SetCell(view, i, c, v) == [view EXCEPT ![i] = [@ EXCEPT ![c] = v]]

DeleteRow(view, i) == SubSeq(view, 1, i - 1) \o SubSeq(view, i + 1, Len(view))

\* What the user can hand back from st.data_editor(..., num_rows="dynamic"):
\* the view untouched, with a row deleted, with a cell changed or cleared,
\* or with a row added.
EditedViews(view) ==
  {view}
    \cup {DeleteRow(view, i) : i \in DOMAIN view}
    \cup {SetCell(view, i, "kWh", v) : i \in DOMAIN view, v \in {Some(0), Some(-10), NA}}
    \cup {SetCell(view, i, c, NA) : i \in DOMAIN view, c \in {"Total Cost", "Latitude", "Date"}}
    \cup (IF Len(view) < MaxRows
          THEN {Append(view, r) : r \in {BlankRow, FilledRow}} ELSE {})

(* ------------------------------ state ---------------------------------- *)
\* file           : the log file RAWDATA, its header line and its rows
\* selected_month : the value of the Month selectbox (session state)
\* msgs           : what the last run showed (st.error / warning / toast)
\* last           : the last run: its trigger, the file it started from, the
\*                  form input and geocoder outcome, the frame shown by the
\*                  editor and the frame it handed back, the month
\*                  selected, and whether the handler wrote
\* saves          : number of "Save Changes to CSV" clicks so far

NoInput == FormInput(Home, <<>>, D1, <<>>, 0, 0)

Run(op, inp, geo, view, edited, wrote) ==
  [op |-> op, pre |-> file, inp |-> inp, geo |-> geo, view |-> view,
   edited |-> edited, sel |-> selected_month, wrote |-> wrote]

Init ==
  /\ file = HeaderOnly
  /\ selected_month = "All"
  /\ msgs = {}
  /\ last = [op |-> "start", pre |-> HeaderOnly, inp |-> NoInput, geo |-> GeoNone,
             view |-> <<>>, edited |-> <<>>, sel |-> "All", wrote |-> FALSE]
  /\ saves = 0

\* The frame and the selection a run of the script works with.
CurFile == EnsureCsv(file)

CurDf == load_data(CurFile)

CurSel == KeepSelection(selected_month, CurDf)

CurFiltered == filtered_df(CurDf, CurSel)

(* ------------------------------ actions -------------------------------- *)
\* The user picks a month in the sidebar; the script reruns.
SelectMonth ==
  \E m \in MonthOptions(CurDf) :
    /\ file' = CurFile
    /\ selected_month' = m
    /\ msgs' = {}
    /\ last' = Run("select", NoInput, GeoNone, <<>>, <<>>, FALSE)
    /\ UNCHANGED saves

\* The geocoder is only called when the form needs it.
GeoFor(inp, outcomes) == IF NeedsGeocoding(inp) THEN outcomes ELSE {GeoNone}

\* "Save Session" on log_form, for a form input of inputs and a behaviour
\* of the geocoder of outcomes; cap bounds the length of the log.
SubmitEntry(inputs, outcomes, cap) ==
  /\ Len(file.rows) < cap
  /\ \E inp \in inputs : \E geo \in GeoFor(inp, outcomes) :
       /\ IF ProviderOf(inp) = <<>>
          THEN /\ file' = CurFile
               /\ msgs' = {"Please specify provider name."}
          ELSE /\ file' = AppendCsv(CurFile, new_data(inp, geo))
               /\ msgs' = {"Charging session saved!"}
                            \cup (IF GeocodeWarning(inp, geo)
                                  THEN {"Could not auto-find. Saved without coordinates."}
                                  ELSE IF NeedsGeocoding(inp) THEN {"Coordinates found"}
                                  ELSE {})
       /\ selected_month' = KeepSelection(selected_month, load_data(file'))
       /\ last' = Run("submit", inp, geo, <<>>, <<>>, ProviderOf(inp) # <<>>)
       /\ UNCHANGED saves

\* "Save Changes to CSV": the editor shows the whole of df sorted by date,
\* the user hands back an edited frame, and the write meets a fault of one
\* of kinds.
SaveChanges(kinds) ==
  /\ saves < MaxSaves
  /\ file.rows # <<>>
  /\ \E view \in SortedViews(CurDf) : \E edited \in EditedViews(view) :
       \E fault \in {f \in Faults(Len(edited)) : f.kind \in kinds} :
         /\ file' = WriteCsv(CurFile, final_save_df(edited), fault)
         /\ msgs' = IF fault.kind = "ok" THEN {"Data saved successfully!"}
                    ELSE {"Error saving data"}
         /\ selected_month' =
              KeepSelection(selected_month, load_data(EnsureCsv(file')))
         /\ last' = Run("save", NoInput, GeoNone, view, edited, fault.kind = "ok")
         /\ saves' = saves + 1

\* The application on a disk that works.
Next ==
  \/ SelectMonth
  \/ SubmitEntry(FormInputs, GeoOutcomes, MaxRows)
  \/ SaveChanges(NoFaults)

Spec == Init /\ [][Next]_vars

\* The application on a disk that can fail while the log is rewritten.
NextFaults ==
  \/ SelectMonth
  \/ SubmitEntry(FormInputs, GeoOutcomes, MaxRows)
  \/ SaveChanges(AnyFault)

SpecFaults == Init /\ [][NextFaults]_vars

\* The entry form alone, over the entry scenarios.
NextEntry == SubmitEntry(EntryInputs, EntryGeoOutcomes, MaxEntries)

SpecEntry == Init /\ [][NextEntry]_vars

TypeOK ==
  /\ file.header \in {<<>>, EXPECTED_COLUMNS}
  /\ Len(file.rows) <= MaxRows + 1
  /\ saves \in 0..MaxSaves

\* The selectbox value is always one of the options of the current frame.
SelectionValid == selected_month = CurSel

(* ------------------------------ properties ----------------------------- *)
Paired(r) == IsNA(r["Latitude"]) <=> IsNA(r["Longitude"])

RECURSIVE SumOver(_, _)
\* Sum of Total Cost over the rows of df at the indices of S.
SumOver(S, df) ==
  IF S = {} THEN 0
  ELSE LET i == CHOOSE j \in S : TRUE
       IN  CostOf(df[i]) + SumOver(S \ {i}, df)

RECURSIVE SumSessions(_)
SumSessions(agg) ==
  IF agg = {} THEN 0
  ELSE LET a == CHOOSE b \in agg : TRUE
       IN  a.Total_Sessions + SumSessions(agg \ {a})

\* C1: in every reachable state, every session of the stored file and of
\* the loaded frame has Latitude and Longitude both present or both absent.
C1_CoordinatesPaired ==
  /\ \A i \in DOMAIN file.rows : Paired(file.rows[i])
  /\ \A i \in DOMAIN CurDf : Paired(CurDf[i])

\* C2: every stored row has Cost_per_kWh defined (never NaN), equal to
\* Total Cost / kWh rounded to 3 decimals when kWh > 0 and to 0 when kWh is
\* 0, negative or absent.
C2_CostPerKwhDefined ==
  \A i \in DOMAIN file.rows :
    LET r == file.rows[i]
    IN  /\ ~IsNA(r["Cost_per_kWh"])
        /\ IF ~IsNA(r["kWh"]) /\ Val(r["kWh"]) > 0
           THEN /\ ~IsNA(r["Total Cost"])
                /\ LET n == 100 * Val(r["Total Cost"])
                       d == Val(r["kWh"])
                       c == Val(r["Cost_per_kWh"])
                   IN  \* c is an integer nearest to n / d
                       2 * d * c - d <= 2 * n /\ 2 * n <= 2 * d * c + d
           ELSE r["Cost_per_kWh"] = Some(0)

\* C3: after a successful bulk save the file holds, under the canonical
\* header, exactly the rows handed back by the editor, in their order, each
\* with Month recomputed from its Date and Cost_per_kWh recomputed from its
\* Total Cost and kWh.
C3_SaveReplacesLog ==
  (last.op = "save" /\ last.wrote) =>
    /\ file.header = EXPECTED_COLUMNS
    /\ Len(file.rows) = Len(last.edited)
    /\ \A i \in DOMAIN last.edited :
         LET e == last.edited[i]
             r == file.rows[i]
         IN  /\ \A c \in Range(display_cols) \ {"Month"} : r[c] = e[c]
             /\ r["Month"] =
                  (IF IsNA(e["Date"]) THEN Some("NaT")
                   ELSE IF Val(e["Date"])[2] = 3 THEN Some("2024-03")
                   ELSE Some("2024-04"))
             /\ IF IsNA(e["kWh"]) THEN r["Cost_per_kWh"] = Some(0)
                ELSE IF Val(e["kWh"]) <= 0 THEN r["Cost_per_kWh"] = Some(0)
                ELSE IF IsNA(e["Total Cost"]) THEN IsNA(r["Cost_per_kWh"])
                ELSE LET n == 100 * Val(e["Total Cost"])
                         d == Val(e["kWh"])
                         c == Val(r["Cost_per_kWh"])
                     IN  /\ ~IsNA(r["Cost_per_kWh"])
                         /\ 2 * d * c - d <= 2 * n
                         /\ 2 * n <= 2 * d * c + d

\* A successful save from which the user removed a row of a two-row log.
C3_Witness ==
  /\ last.op = "save" /\ last.wrote
  /\ Len(last.pre.rows) = 2
  /\ Len(file.rows) = 1
  /\ file.rows[1]["Cost_per_kWh"] = Some(6667)

\* C4: a bulk save that fails leaves the stored file exactly as it was and
\* reports the failure.
C4_FailedSaveLeavesFile ==
  (last.op = "save" /\ ~last.wrote) =>
    (file = last.pre /\ "Error saving data" \in msgs)

\* C5: a submission with provider "Other" and an empty or whitespace-only
\* custom name is rejected with an error and leaves the stored log unchanged.
C5_EmptyProviderRejected ==
  (/\ last.op = "submit"
   /\ last.inp.selected_provider = Other
   /\ \A k \in DOMAIN last.inp.other_provider : last.inp.other_provider[k] = " ") =>
    (file = last.pre /\ "Please specify provider name." \in msgs)

\* A whitespace-only custom provider submitted on a log that has a row.
C5_Witness ==
  /\ last.op = "submit"
  /\ last.inp.selected_provider = Other
  /\ last.inp.other_provider = <<" ">>
  /\ Len(last.pre.rows) = 1
  /\ file = last.pre

\* C6: a submission with a provider, a location name and both coordinates
\* at 0.0 appends exactly one row whatever the geocoder does; the row
\* carries the geocoder's pair when it returns one, and otherwise has both
\* coordinates absent and a warning is shown.
C6_GeocodedRowAppended ==
  (/\ last.op = "submit"
   /\ last.wrote
   /\ Strip(last.inp.location_name) # <<>>
   /\ last.inp.lat_val = 0 /\ last.inp.lon_val = 0) =>
    /\ Len(file.rows) = Len(last.pre.rows) + 1
    /\ SubSeq(file.rows, 1, Len(last.pre.rows)) = last.pre.rows
    /\ LET r == file.rows[Len(file.rows)]
       IN  IF last.geo.kind = "found"
           THEN /\ r["Latitude"] = Some(last.geo.lat)
                /\ r["Longitude"] = Some(last.geo.lon)
           ELSE /\ IsNA(r["Latitude"]) /\ IsNA(r["Longitude"])
                /\ "Could not auto-find. Saved without coordinates." \in msgs

\* C7: a record whose Date cannot be parsed is retained by the load with an
\* absent date, falls in no daily-spend group and is selected by no month
\* key offered by the month filter.
C7_UnparsedDateExcluded ==
  /\ Len(CurDf) = Len(CurFile.rows)
  /\ \A i \in DOMAIN CurDf :
       IsNA(to_datetime(CurFile.rows[i]["Date"])) =>
         /\ IsNA(CurDf[i]["Date"])
         /\ \A m \in MonthOptions(CurDf) :
              /\ \A g \in daily_df(filtered_df(CurDf, m)) : g.Date # CurDf[i]["Date"]
              /\ m # "All" => CurDf[i] \notin Range(filtered_df(CurDf, m))

\* C8: with "All" the filter returns the whole frame; with a month key it
\* returns exactly the sessions whose Month equals the key, and the daily
\* spend is summed over those sessions only.
C8_MonthFilterExact ==
  LET df == CurDf
      f == filtered_df(df, selected_month)
      daily == daily_df(f)
      match == {i \in DOMAIN df :
                  selected_month = "All" \/ df[i]["Month"] = Some(selected_month)}
  IN  /\ selected_month = "All" => f = df
      /\ Len(f) = Cardinality(match)
      /\ Range(f) = {df[i] : i \in match}
      /\ {g.Date : g \in daily} = {df[i]["Date"] : i \in match} \ {NA}
      /\ \A g \in daily :
           g.TotalCost = SumOver({i \in match : df[i]["Date"] = g.Date}, df)

\* March is selected while the log holds a March and an April session.
C8_Witness ==
  /\ selected_month = "2024-03"
  /\ Len(CurDf) = 2
  /\ Len(CurFiltered) = 1
  /\ \E i \in DOMAIN CurDf : CurDf[i]["Month"] = Some("2024-04")
  /\ \E g \in daily_df(CurFiltered) : g.TotalCost = 2000

\* C9: the location aggregate has exactly one row per distinct (Location,
\* Latitude, Longitude) among the filtered sessions that have both
\* coordinates, with the number of those sessions and the sum of their
\* Total Cost; the session counts add up to the number of such sessions.
C9_LocationAggregate ==
  LET f == CurFiltered
      with == {i \in DOMAIN f : ~IsNA(f[i]["Latitude"]) /\ ~IsNA(f[i]["Longitude"])}
      agg == location_agg(f)
      key(a) == <<a.Location, a.Latitude, a.Longitude>>
  IN  /\ {key(a) : a \in agg} = {LocKey(f[i]) : i \in with}
      /\ \A a \in agg : \A b \in agg : key(a) = key(b) => a = b
      /\ \A a \in agg :
           LET members == {i \in with : LocKey(f[i]) = key(a)}
           IN  /\ a.Total_Sessions = Cardinality(members)
               /\ a.Total_Spent = SumOver(members, f)
      /\ SumSessions(agg) = Cardinality(with)

\* C10: a successful bulk save made while a month is selected writes the
\* sessions of every month: the editor was given every stored session, the
\* file has as many rows as the editor handed back, and every stored session
\* outside the selected month that the user did not take out of the frame
\* is in the file as it was.
C10_SaveKeepsOtherMonths ==
  (last.op = "save" /\ last.wrote /\ last.sel # "All") =>
    /\ Len(last.view) = Len(last.pre.rows)
    /\ Len(file.rows) = Len(last.edited)
    /\ \A i \in DOMAIN last.pre.rows :
         LET r == last.pre.rows[i]
             shown == DisplayRow(NormalizeRow(r))
         IN  r["Month"] # Some(last.sel) =>
               /\ shown \in Range(last.view)
               /\ shown \in Range(last.edited) => r \in Range(file.rows)

\* With March selected, a March session was edited and saved; the April
\* session is still in the file.
C10_Witness ==
  /\ last.op = "save" /\ last.wrote
  /\ last.sel = "2024-03"
  /\ Len(last.pre.rows) = 2
  /\ Len(file.rows) = 2
  /\ file.rows # last.pre.rows
  /\ \E i \in DOMAIN last.pre.rows :
       /\ last.pre.rows[i]["Month"] = Some("2024-04")
       /\ last.pre.rows[i] \in Range(file.rows)
  /\ \E i \in DOMAIN file.rows : file.rows[i]["kWh"] = Some(0)

====
